---- MODULE Spec2Model ----
(***************************************************************************)
(* Model of cockle's command-line dispatcher (src/src/lib.rs):             *)
(* Parser::parse, Verb::parse and Command::parse over a tree built by      *)
(* Parser::new / Verb::new / Command::new / Parameter::new.                *)
(*                                                                         *)
(* A Rust String / &str is a sequence of characters; a character is a      *)
(* one-element TLA+ string ("a", "-", " "), and a character outside ASCII  *)
(* is written by its code point ("U+00E9").  A HashMap is a function whose *)
(* DOMAIN is its key set.  A reference to a node of the tree (&Verb,       *)
(* &Command) is the node's path of map keys from the Parser; a reference   *)
(* to a Parameter is the Parameter it points to.                           *)
(*                                                                         *)
(* Spec runs one call as a whole; SpecSteps runs it step by step (one step *)
(* per method body up to its call or return, one per loop iteration);      *)
(* SpecInterleaved adds a second caller on the same tree.                  *)
(***************************************************************************)
EXTENDS Naturals, Sequences, FiniteSets

VARIABLES tree, target, input, pc, action, calls, frame, other

vars == <<tree, target, input, pc, action, calls, frame, other>>

----------------------------------------------------------------------------
(* Characters and the str methods the code calls.                          *)

Space == " "
Dash == "-"
\* Characters of the input texts: a whitespace other than " ", and a
\* character whose UTF-8 encoding takes two bytes.
Tab == "\t"
EAcute == "U+00E9"

\* Option<T>: None is the empty sequence, Some(x) the sequence of x alone.
None == <<>>
Some(x) == <<x>>

\* char::len_utf8: the number of bytes of a character in a String.
Utf8Len(c) == IF c = EAcute THEN 2 ELSE 1

\* char::is_whitespace, the separator of str::split_whitespace.
IsWhitespace(c) == c \in {Space, Tab}

RECURSIVE StrLen(_)
\* str::len: the length in bytes.
StrLen(s) == IF s = <<>> THEN 0 ELSE Utf8Len(Head(s)) + StrLen(Tail(s))

\* str::starts_with
StartsWith(s, prefix) ==
    /\ Len(s) >= Len(prefix)
    /\ SubSeq(s, 1, Len(prefix)) = prefix

RECURSIVE TrimStartDashes(_)
TrimStartDashes(s) ==
    IF s # <<>> /\ Head(s) = Dash THEN TrimStartDashes(Tail(s)) ELSE s

RECURSIVE TrimEndDashes(_)
TrimEndDashes(s) ==
    IF s # <<>> /\ s[Len(s)] = Dash
    THEN TrimEndDashes(SubSeq(s, 1, Len(s) - 1))
    ELSE s

\* str::trim_matches('-'): every leading and every trailing '-' is removed.
TrimMatches(s) == TrimEndDashes(TrimStartDashes(s))

\* str::split_once(" "): None without a " ", else the text before the first
\* " " and the text after it.
SplitOnce(s) ==
    IF \E i \in 1..Len(s) : s[i] = Space
    THEN LET i == CHOOSE i \in 1..Len(s) :
                      /\ s[i] = Space
                      /\ \A j \in 1..(i - 1) : s[j] # Space
         IN  Some(<<SubSeq(s, 1, i - 1), SubSeq(s, i + 1, Len(s))>>)
    ELSE None

RECURSIVE SplitWhitespaceFrom(_, _)
\* The tokens of s after the token `cur` (being read) is completed.
SplitWhitespaceFrom(s, cur) ==
    IF s = <<>>
    THEN IF cur = <<>> THEN <<>> ELSE <<cur>>
    ELSE IF IsWhitespace(Head(s))
         THEN (IF cur = <<>> THEN <<>> ELSE <<cur>>)
                  \o SplitWhitespaceFrom(Tail(s), <<>>)
         ELSE SplitWhitespaceFrom(Tail(s), Append(cur, Head(s)))

\* str::split_whitespace: the maximal runs of non-whitespace characters.
SplitWhitespace(s) == SplitWhitespaceFrom(s, <<>>)

----------------------------------------------------------------------------
(* Construction: Parameter::new, Command::new, Verb::new, Parser::new.     *)

\* HashMap::insert: a later insert under the same key replaces the value.
Insert(map, key, value) ==
    [k \in (DOMAIN map) \cup {key} |-> IF k = key THEN value ELSE map[k]]

EmptyMap == [k \in {} |-> None]

RECURSIVE InsertAllByName(_, _)
\* for item in items { map.insert(item.name().clone(), item) }
InsertAllByName(map, items) ==
    IF items = <<>> THEN map
    ELSE InsertAllByName(Insert(map, Head(items).name, Head(items)), Tail(items))

ManualNew(short_description, detailed_help) ==
    [short_description |-> short_description, detailed_help |-> detailed_help]

ParameterNew(short_name, long_name) ==
    [short_name |-> short_name, long_name |-> long_name]

\* IndexByShortName with positions counted from 1.
IndexByShortNameOneBased(parameters) ==
    [k \in {parameters[i].short_name : i \in 1..Len(parameters)} |->
        CHOOSE i \in 1..Len(parameters) :
            /\ parameters[i].short_name = k
            /\ \A j \in (i + 1)..Len(parameters) : parameters[j].short_name # k]

\* Iterator::collect into a HashMap<char, usize> of (x.short_name, i) over
\* enumerate(): positions are 0-based, the last position of a repeated key stays.
IndexByShortName(parameters) ==
    [k \in {parameters[i].short_name : i \in 1..Len(parameters)} |->
        (CHOOSE i \in 1..Len(parameters) :
            /\ parameters[i].short_name = k
            /\ \A j \in (i + 1)..Len(parameters) : parameters[j].short_name # k) - 1]

\* The same over (x.long_name.clone(), i), into a HashMap<String, usize>.
IndexByLongName(parameters) ==
    [k \in {parameters[i].long_name : i \in 1..Len(parameters)} |->
        (CHOOSE i \in 1..Len(parameters) :
            /\ parameters[i].long_name = k
            /\ \A j \in (i + 1)..Len(parameters) : parameters[j].long_name # k) - 1]

CommandNew(name, parameters) ==
    [name |-> name,
     parameters |-> parameters,
     parameters_by_short_name |-> IndexByShortName(parameters),
     parameters_by_long_name |-> IndexByLongName(parameters)]

\* verbs and commands are Option<Vec<_>>.
VerbNew(name, verbs, commands, manual) ==
    [name |-> name,
     verbs |-> IF verbs = None THEN EmptyMap
               ELSE InsertAllByName(EmptyMap, verbs[1]),
     commands |-> IF commands = None THEN EmptyMap
                  ELSE InsertAllByName(EmptyMap, commands[1]),
     manual |-> manual]

ParserNew(verbs) == [verbs |-> InsertAllByName(EmptyMap, verbs)]

ParameterValueNew(parameter_type) ==
    [parameter_type |-> parameter_type, values |-> <<>>]

----------------------------------------------------------------------------
(* The Action variants the code constructs.                                *)

Unknown(token) == [kind |-> "Unknown", token |-> token]
Incorrect(token, verb) == [kind |-> "Incorrect", token |-> token, verb |-> verb]
BadParameter(token, command) ==
    [kind |-> "BadParameter", token |-> token, command |-> command]
Run(parameter_values) == [kind |-> "Run", parameter_values |-> parameter_values]
Help(parameter_values) == [kind |-> "Help", parameter_values |-> parameter_values]

\* The call does not return: Option::expect met None while looking `name` up
\* among the children of kind `what` ("verb" or "command").
Panic(what, name) == [kind |-> "Panic", what |-> what, name |-> name]

\* HashMap::contains_key and HashMap::get.
ContainsKey(map, key) == key \in DOMAIN map
MapGet(map, key) == IF key \in DOMAIN map THEN Some(map[key]) ELSE None

\* One invocation of a parse method: the method, the node it is called on
\* and its argument.
Call(fn, self, arg) == [fn |-> fn, self |-> self, arg |-> arg]

\* What a parse method hands back: the Action, and the invocations made to
\* compute it (this one first).
Returned(a, cs) == [action |-> a, calls |-> cs]

RECURSIVE VerbAt(_, _, _)
\* The Verb reached from the verb map `verbs` along `path`.
VerbAt(verbs, path, i) ==
    IF i = Len(path) THEN verbs[path[i]]
    ELSE VerbAt(verbs[path[i]].verbs, path, i + 1)

VerbOf(p, path) == VerbAt(p.verbs, path, 1)

CommandOf(p, path) ==
    VerbOf(p, SubSeq(path, 1, Len(path) - 1)).commands[path[Len(path)]]

----------------------------------------------------------------------------
(* Command::parse                                                          *)

\* OpenParameter, except that a flag repeated right after itself reuses the
\* entry it opened before.
OpenParameterMerging(command, index_map, key, parameter_values) ==
    IF key \in DOMAIN index_map
    THEN LET parameter_type_index == index_map[key]
         IN  IF parameter_type_index < Len(command.parameters)
             THEN LET fresh == ParameterValueNew(
                                   command.parameters[parameter_type_index + 1])
                  IN  IF /\ parameter_values # <<>>
                         /\ parameter_values[Len(parameter_values)].parameter_type
                                = fresh.parameter_type
                      THEN parameter_values
                      ELSE Append(parameter_values, fresh)
             ELSE parameter_values
    ELSE parameter_values

\* lines 173-177 and 187-191: look the name up in an index map, then
\* self.parameters.get(index); a hit pushes ParameterValue::new, a miss of
\* either lookup leaves the list as it is.
OpenParameter(command, index_map, key, parameter_values) ==
    IF key \in DOMAIN index_map
    THEN LET parameter_type_index == index_map[key]
         IN  IF parameter_type_index < Len(command.parameters)
             THEN Append(parameter_values,
                         ParameterValueNew(command.parameters[parameter_type_index + 1]))
             ELSE parameter_values
    ELSE parameter_values

\* PushValue with first_mut() in the place of last_mut().
PushValueFirst(parameter_values, token) ==
    IF parameter_values = <<>> THEN parameter_values
    ELSE [parameter_values EXCEPT ![1].values = Append(@, token)]

\* PushValue, except that a token met before any flag opens an entry of its own.
PushValuePositional(parameter_values, token) ==
    IF parameter_values = <<>>
    THEN <<[parameter_type |-> ParameterNew(Space, <<>>), values |-> <<token>>]>>
    ELSE [parameter_values EXCEPT ![Len(parameter_values)].values = Append(@, token)]

\* lines 195-197: parameter_values.last_mut() gets the token, if there is one.
PushValue(parameter_values, token) ==
    IF parameter_values = <<>> THEN parameter_values
    ELSE [parameter_values EXCEPT ![Len(parameter_values)].values = Append(@, token)]

RECURSIVE CommandParseLoop(_, _, _, _)
\* The loop, except that a call that opened no parameter is reported as a bad
\* parameter.
CommandParseLoopNeedsTokens(command, self, tokens, parameter_values) ==
    IF tokens = <<>>
    THEN IF parameter_values = <<>> THEN BadParameter(<<>>, self)
         ELSE Run(parameter_values)
    ELSE LET token == Head(tokens)
             parameter_type_token == TrimMatches(token)
         IN  IF StartsWith(token, <<Dash, Dash>>)
             THEN CommandParseLoop(command, self, Tail(tokens),
                      OpenParameter(command, command.parameters_by_long_name,
                                    parameter_type_token, parameter_values))
             ELSE IF StartsWith(token, <<Dash>>)
             THEN IF StrLen(parameter_type_token) > 1
                  THEN BadParameter(parameter_type_token, self)
                  ELSE IF parameter_type_token # <<>>
                  THEN CommandParseLoop(command, self, Tail(tokens),
                           OpenParameter(command, command.parameters_by_short_name,
                                         Head(parameter_type_token), parameter_values))
                  ELSE CommandParseLoop(command, self, Tail(tokens), parameter_values)
             ELSE CommandParseLoop(command, self, Tail(tokens),
                                   PushValue(parameter_values, token))

\* The for loop over the tokens, and the Run after it.  `self` is the path of
\* `command`.
CommandParseLoop(command, self, tokens, parameter_values) ==
    IF tokens = <<>> THEN Run(parameter_values)
    ELSE LET token == Head(tokens)
             parameter_type_token == TrimMatches(token)
         IN  IF StartsWith(token, <<Dash, Dash>>)
             THEN CommandParseLoop(command, self, Tail(tokens),
                      OpenParameter(command, command.parameters_by_long_name,
                                    parameter_type_token, parameter_values))
             ELSE IF StartsWith(token, <<Dash>>)
             THEN IF StrLen(parameter_type_token) > 1
                  THEN BadParameter(parameter_type_token, self)
                  ELSE IF parameter_type_token # <<>>
                  THEN CommandParseLoop(command, self, Tail(tokens),
                           OpenParameter(command, command.parameters_by_short_name,
                                         Head(parameter_type_token), parameter_values))
                  ELSE CommandParseLoop(command, self, Tail(tokens), parameter_values)
             ELSE CommandParseLoop(command, self, Tail(tokens),
                                   PushValue(parameter_values, token))

\* Command::parse on the Command at path `self` of parser p.
CommandParse(p, self, parameters) ==
    Returned(CommandParseLoop(CommandOf(p, self), self,
                              SplitWhitespace(parameters), <<>>),
             <<Call("Command::parse", self, parameters)>>)

----------------------------------------------------------------------------
(* Verb::parse and Parser::parse                                           *)

RECURSIVE VerbParse(_, _, _)
\* Verb::parse with the two lookups in the other order.
VerbParseCommandsFirst(p, self, text) ==
    LET verb == VerbOf(p, self)
        split == SplitOnce(text)
        command_name == IF split = None THEN text ELSE split[1][1]
        remaining_commands == IF split = None THEN <<>> ELSE split[1][2]
        this == Call("Verb::parse", self, text)
    IN  IF ContainsKey(verb.commands, command_name)
        THEN IF MapGet(verb.commands, command_name) = None
             THEN Returned(Panic("command", command_name), <<this>>)
             ELSE LET r == CommandParse(p, Append(self, command_name), remaining_commands)
                  IN  Returned(r.action, <<this>> \o r.calls)
        ELSE IF ContainsKey(verb.verbs, command_name)
        THEN IF MapGet(verb.verbs, command_name) = None
             THEN Returned(Panic("verb", command_name), <<this>>)
             ELSE LET r == VerbParse(p, Append(self, command_name), remaining_commands)
                  IN  Returned(r.action, <<this>> \o r.calls)
        ELSE Returned(Incorrect(text, self), <<this>>)

\* Verb::parse, except that Incorrect carries the top-level Verb of the path.
VerbParseStallAtTop(p, self, text) ==
    LET verb == VerbOf(p, self)
        split == SplitOnce(text)
        command_name == IF split = None THEN text ELSE split[1][1]
        remaining_commands == IF split = None THEN <<>> ELSE split[1][2]
        this == Call("Verb::parse", self, text)
    IN  IF ContainsKey(verb.verbs, command_name)
        THEN IF MapGet(verb.verbs, command_name) = None
             THEN Returned(Panic("verb", command_name), <<this>>)
             ELSE LET r == VerbParse(p, Append(self, command_name), remaining_commands)
                  IN  Returned(r.action, <<this>> \o r.calls)
        ELSE IF ContainsKey(verb.commands, command_name)
        THEN IF MapGet(verb.commands, command_name) = None
             THEN Returned(Panic("command", command_name), <<this>>)
             ELSE LET r == CommandParse(p, Append(self, command_name), remaining_commands)
                  IN  Returned(r.action, <<this>> \o r.calls)
        ELSE Returned(Incorrect(text, SubSeq(self, 1, 1)), <<this>>)

\* Verb::parse, except that the command is fetched from the map of verbs.
VerbParseCommandFromVerbs(p, self, text) ==
    LET verb == VerbOf(p, self)
        split == SplitOnce(text)
        command_name == IF split = None THEN text ELSE split[1][1]
        remaining_commands == IF split = None THEN <<>> ELSE split[1][2]
        this == Call("Verb::parse", self, text)
    IN  IF ContainsKey(verb.verbs, command_name)
        THEN IF MapGet(verb.verbs, command_name) = None
             THEN Returned(Panic("verb", command_name), <<this>>)
             ELSE LET r == VerbParse(p, Append(self, command_name), remaining_commands)
                  IN  Returned(r.action, <<this>> \o r.calls)
        ELSE IF ContainsKey(verb.commands, command_name)
        THEN IF MapGet(verb.verbs, command_name) = None
             THEN Returned(Panic("command", command_name), <<this>>)
             ELSE LET r == CommandParse(p, Append(self, command_name), remaining_commands)
                  IN  Returned(r.action, <<this>> \o r.calls)
        ELSE Returned(Incorrect(text, self), <<this>>)

\* Verb::parse, except that a Verb given no text at all answers with Help.
VerbParseHelpOnEmpty(p, self, text) ==
    LET verb == VerbOf(p, self)
        split == SplitOnce(text)
        command_name == IF split = None THEN text ELSE split[1][1]
        remaining_commands == IF split = None THEN <<>> ELSE split[1][2]
        this == Call("Verb::parse", self, text)
    IN  IF text = <<>> THEN Returned(Help(<<>>), <<this>>)
        ELSE IF ContainsKey(verb.verbs, command_name)
        THEN IF MapGet(verb.verbs, command_name) = None
             THEN Returned(Panic("verb", command_name), <<this>>)
             ELSE LET r == VerbParse(p, Append(self, command_name), remaining_commands)
                  IN  Returned(r.action, <<this>> \o r.calls)
        ELSE IF ContainsKey(verb.commands, command_name)
        THEN IF MapGet(verb.commands, command_name) = None
             THEN Returned(Panic("command", command_name), <<this>>)
             ELSE LET r == CommandParse(p, Append(self, command_name), remaining_commands)
                  IN  Returned(r.action, <<this>> \o r.calls)
        ELSE Returned(Incorrect(text, self), <<this>>)

\* Verb::parse on the Verb at path `self` of parser p: each branch tests
\* contains_key, then fetches with get(..).expect(..), which panics on None.
VerbParse(p, self, text) ==
    LET verb == VerbOf(p, self)
        split == SplitOnce(text)
        command_name == IF split = None THEN text ELSE split[1][1]
        remaining_commands == IF split = None THEN <<>> ELSE split[1][2]
        this == Call("Verb::parse", self, text)
    IN  IF ContainsKey(verb.verbs, command_name)
        THEN IF MapGet(verb.verbs, command_name) = None
             THEN Returned(Panic("verb", command_name), <<this>>)
             ELSE LET r == VerbParse(p, Append(self, command_name), remaining_commands)
                  IN  Returned(r.action, <<this>> \o r.calls)
        ELSE IF ContainsKey(verb.commands, command_name)
        THEN IF MapGet(verb.commands, command_name) = None
             THEN Returned(Panic("command", command_name), <<this>>)
             ELSE LET r == CommandParse(p, Append(self, command_name), remaining_commands)
                  IN  Returned(r.action, <<this>> \o r.calls)
        ELSE Returned(Incorrect(text, self), <<this>>)

\* Parser::parse, except that the Verb is handed the whole line.
ParserParseWholeLine(p, text) ==
    LET split == SplitOnce(text)
        verb_name == IF split = None THEN text ELSE split[1][1]
        this == Call("Parser::parse", <<>>, text)
    IN  IF MapGet(p.verbs, verb_name) # None
        THEN LET r == VerbParse(p, <<verb_name>>, text)
             IN  Returned(r.action, <<this>> \o r.calls)
        ELSE Returned(Unknown(verb_name), <<this>>)

\* Parser::parse, except that Unknown carries the whole line.
ParserParseUnknownLine(p, text) ==
    LET split == SplitOnce(text)
        verb_name == IF split = None THEN text ELSE split[1][1]
        remaining_commands == IF split = None THEN <<>> ELSE split[1][2]
        this == Call("Parser::parse", <<>>, text)
    IN  IF MapGet(p.verbs, verb_name) # None
        THEN LET r == VerbParse(p, <<verb_name>>, remaining_commands)
             IN  Returned(r.action, <<this>> \o r.calls)
        ELSE Returned(Unknown(text), <<this>>)

\* Parser::parse on parser p.
ParserParse(p, text) ==
    LET split == SplitOnce(text)
        verb_name == IF split = None THEN text ELSE split[1][1]
        remaining_commands == IF split = None THEN <<>> ELSE split[1][2]
        this == Call("Parser::parse", <<>>, text)
    IN  IF MapGet(p.verbs, verb_name) # None
        THEN LET r == VerbParse(p, <<verb_name>>, remaining_commands)
             IN  Returned(r.action, <<this>> \o r.calls)
        ELSE Returned(Unknown(verb_name), <<this>>)

----------------------------------------------------------------------------
(* The trees and the input lines of the model.                             *)

MaxLineWords == 4
MaxArgWords == 3

Name == <<"n", "a", "m", "e">>
Count == <<"c", "o", "u", "n", "t">>

TheManual == ManualNew(<<"h">>, <<<<>>>>)

\* The parameter list of the repository's tests, one with a repeated short
\* name, and the empty one.
ParamsNameCount == <<ParameterNew("i", Name), ParameterNew("n", Count)>>
ParamsRepeated == <<ParameterNew("i", Name), ParameterNew("i", Count)>>
ParamsEmpty == <<>>

\* Verb "v" holds the verbs "w" and "c" and the commands "c" (the name of a
\* child verb too) and "a"; a second top-level verb is named "v w".
VerbW == VerbNew(<<"w">>, None, Some(<<CommandNew(<<"c">>, ParamsRepeated)>>), TheManual)
VerbC == VerbNew(<<"c">>, None, Some(<<CommandNew(<<"w">>, ParamsEmpty)>>), TheManual)
VerbV ==
    VerbNew(<<"v">>, Some(<<VerbW, VerbC>>),
            Some(<<CommandNew(<<"c">>, ParamsNameCount),
                   CommandNew(<<"a">>, ParamsNameCount)>>),
            TheManual)
VerbVW ==
    VerbNew(<<"v", Space, "w">>, None,
            Some(<<CommandNew(<<"c">>, ParamsNameCount)>>), TheManual)

TheParser == ParserNew(<<VerbV, VerbVW>>)

\* The tree of the repository's tests: one verb with one command (here "v"
\* and "c") of the parameters ('i', "name") and ('n', "count").
TestsParser ==
    ParserNew(<<VerbNew(<<"v">>, None,
                        Some(<<CommandNew(<<"c">>, ParamsNameCount)>>), TheManual)>>)

\* The built trees, by name; a tree is immutable once built, and the state
\* holds the name of the one in use.
Parsers == [main |-> TheParser, tests |-> TestsParser]

Trees == DOMAIN Parsers

\* The parse methods a caller invokes on a tree: all three are pub.
Targets(t) ==
    IF t = "main"
    THEN {[fn |-> "Parser::parse", self |-> <<>>],
          [fn |-> "Verb::parse", self |-> <<<<"v">>>>],
          [fn |-> "Command::parse", self |-> <<<<"v">>, <<"a">>>>],
          [fn |-> "Command::parse", self |-> <<<<"v">>, <<"w">>, <<"c">>>>]}
    ELSE {[fn |-> "Parser::parse", self |-> <<>>]}

\* Words of a line given to Parser::parse or Verb::parse: path segments
\* (registered or not, and the empty one between two spaces), a flag, a value.
LineWords ==
    {<<"v">>, <<"w">>, <<"c">>, <<"a">>, <<"x">>, <<>>, <<Dash, "i">>}

\* Words of an argument text given to Command::parse: flags in short and
\* long form (alone, and with a value after a " " or a tab), flags that no
\* Command of the trees declares, a long flag with a dash after its name,
\* single-dash tokens of two characters, of a
\* trailing dash and of one character of two bytes, bare values, and the
\* empty word (two spaces in a row).
ArgWords ==
    {<<Dash, "i">>, <<Dash, "i", Space, "a">>,
     <<Dash, Dash>> \o Name \o <<Tab, "b">>, <<Dash, "n">>,
     <<Dash, "z">>, <<Dash, Dash, "z", "z">>, <<Dash, Dash>> \o Name \o <<Dash>>,
     <<Dash, "i", "x">>, <<Dash, "i", Dash>>, <<Dash, EAcute>>,
     <<"a">>, <<"b">>, <<>>}

RECURSIVE Join(_)
\* The words with one " " between neighbours.
Join(words) ==
    IF words = <<>> THEN <<>>
    ELSE IF Len(words) = 1 THEN words[1]
    ELSE words[1] \o <<Space>> \o Join(Tail(words))

TextsOf(words, max) ==
    {Join(ws) : ws \in UNION {[1..n -> words] : n \in 0..max}}

Lines == TextsOf(LineWords, MaxLineWords)
ArgTexts == TextsOf(ArgWords, MaxArgWords)

----------------------------------------------------------------------------
(* The state machine: one call of a parse method on a built tree.          *)

Init ==
    /\ tree \in Trees
    /\ target \in Targets(tree)
    /\ input \in (IF target.fn = "Command::parse" THEN ArgTexts ELSE Lines)
    /\ pc = "ready"
    /\ action = None
    /\ calls = <<>>
    /\ frame = None
    /\ other = None

Return(r) ==
    /\ action' = r.action
    /\ calls' = r.calls
    /\ pc' = "done"
    /\ UNCHANGED <<tree, target, input, frame, other>>

CallParserParse ==
    /\ pc = "ready"
    /\ target.fn = "Parser::parse"
    /\ Return(ParserParse(Parsers[tree], input))

CallVerbParse ==
    /\ pc = "ready"
    /\ target.fn = "Verb::parse"
    /\ Return(VerbParse(Parsers[tree], target.self, input))

CallCommandParse ==
    /\ pc = "ready"
    /\ target.fn = "Command::parse"
    /\ Return(CommandParse(Parsers[tree], target.self, input))

Next == CallParserParse \/ CallVerbParse \/ CallCommandParse

Spec == Init /\ [][Next]_vars

----------------------------------------------------------------------------
(* The same methods, one step at a time.  A thread of control is a record   *)
(* [pc, frame, action, calls]: `frame` holds the locals of the innermost    *)
(* invocation (the callers above it only wait to hand its result on),       *)
(* `calls` the invocations entered so far.                                  *)

Fresh == [pc |-> "ready", frame |-> None, action |-> None, calls |-> <<>>]

\* The locals of a method on entry: `input` for Parser::parse and
\* Verb::parse; for Command::parse the token iterator of line 165 and the
\* empty Vec of line 167.
Invoke(fn, self, arg) ==
    IF fn = "Command::parse"
    THEN [fn |-> fn, self |-> self, tokens |-> SplitWhitespace(arg),
          parameter_values |-> <<>>]
    ELSE [fn |-> fn, self |-> self, input |-> arg]

Entering(th, fn, self, arg) ==
    [pc |-> "running", frame |-> Invoke(fn, self, arg), action |-> None,
     calls |-> Append(th.calls, Call(fn, self, arg))]

Returning(th, a) ==
    [pc |-> "done", frame |-> None, action |-> a, calls |-> th.calls]

\* Parser::parse, up to its call of Verb::parse or its return.
ParserParseStep(p, th) ==
    LET split == SplitOnce(th.frame.input)
        verb_name == IF split = None THEN th.frame.input ELSE split[1][1]
        remaining_commands == IF split = None THEN <<>> ELSE split[1][2]
    IN  IF MapGet(p.verbs, verb_name) # None
        THEN Entering(th, "Verb::parse", <<verb_name>>, remaining_commands)
        ELSE Returning(th, Unknown(verb_name))

\* Verb::parse, up to its call of a child's parse or its return.
VerbParseStep(p, th) ==
    LET self == th.frame.self
        verb == VerbOf(p, self)
        split == SplitOnce(th.frame.input)
        command_name == IF split = None THEN th.frame.input ELSE split[1][1]
        remaining_commands == IF split = None THEN <<>> ELSE split[1][2]
    IN  IF ContainsKey(verb.verbs, command_name)
        THEN IF MapGet(verb.verbs, command_name) = None
             THEN Returning(th, Panic("verb", command_name))
             ELSE Entering(th, "Verb::parse", Append(self, command_name),
                           remaining_commands)
        ELSE IF ContainsKey(verb.commands, command_name)
        THEN IF MapGet(verb.commands, command_name) = None
             THEN Returning(th, Panic("command", command_name))
             ELSE Entering(th, "Command::parse", Append(self, command_name),
                           remaining_commands)
        ELSE Returning(th, Incorrect(th.frame.input, self))

\* One iteration of the loop, except that a long flag the Command does not
\* declare is looked at again in the next iteration.
CommandParseTokenKeepsUnknownFlag(p, th) ==
    LET self == th.frame.self
        command == CommandOf(p, self)
        parameter_values == th.frame.parameter_values
        token == Head(th.frame.tokens)
        parameter_type_token == TrimMatches(token)
        Continue(values) ==
            [th EXCEPT !.frame.tokens = Tail(@), !.frame.parameter_values = values]
    IN  IF StartsWith(token, <<Dash, Dash>>)
        THEN IF parameter_type_token \in DOMAIN command.parameters_by_long_name
             THEN Continue(OpenParameter(command, command.parameters_by_long_name,
                                         parameter_type_token, parameter_values))
             ELSE th
        ELSE IF StartsWith(token, <<Dash>>)
        THEN IF StrLen(parameter_type_token) > 1
             THEN Returning(th, BadParameter(parameter_type_token, self))
             ELSE IF parameter_type_token # <<>>
             THEN Continue(OpenParameter(command, command.parameters_by_short_name,
                                         Head(parameter_type_token), parameter_values))
             ELSE Continue(parameter_values)
        ELSE Continue(PushValue(parameter_values, token))

\* One iteration of the for loop of Command::parse (lines 169-199): the
\* iterator yields its next token, and the body handles it.
CommandParseToken(p, th) ==
    LET self == th.frame.self
        command == CommandOf(p, self)
        parameter_values == th.frame.parameter_values
        token == Head(th.frame.tokens)
        parameter_type_token == TrimMatches(token)
        Continue(values) ==
            [th EXCEPT !.frame.tokens = Tail(@), !.frame.parameter_values = values]
    IN  IF StartsWith(token, <<Dash, Dash>>)
        THEN Continue(OpenParameter(command, command.parameters_by_long_name,
                                    parameter_type_token, parameter_values))
        ELSE IF StartsWith(token, <<Dash>>)
        THEN IF StrLen(parameter_type_token) > 1
             THEN Returning(th, BadParameter(parameter_type_token, self))
             ELSE IF parameter_type_token # <<>>
             THEN Continue(OpenParameter(command, command.parameters_by_short_name,
                                         Head(parameter_type_token), parameter_values))
             ELSE Continue(parameter_values)
        ELSE Continue(PushValue(parameter_values, token))

\* Line 201: the iterator is exhausted.
CommandParseRun(th) == Returning(th, Run(th.frame.parameter_values))

\* The next step of a running thread.
StepOf(p, th) ==
    IF th.frame.fn = "Parser::parse" THEN ParserParseStep(p, th)
    ELSE IF th.frame.fn = "Verb::parse" THEN VerbParseStep(p, th)
    ELSE IF th.frame.tokens # <<>> THEN CommandParseToken(p, th)
    ELSE CommandParseRun(th)

MaxStepWords == 3
MaxInterleavedWords == 1
MaxOtherCalls == 2

\* Words of the texts the stepwise runs start from: path segments, a value
\* that is a command name too, a flag with its value, a malformed flag, a
\* long flag no Command declares, and the empty word.
StepWords ==
    {<<"v">>, <<"w">>, <<"c">>, <<"a">>, <<Dash, "i", Space, "a">>,
     <<Dash, "i", "x">>, <<Dash, Dash, "z", "z">>, <<>>}

StepTexts == TextsOf(StepWords, MaxStepWords)
InterleavedTexts == TextsOf(StepWords, MaxInterleavedWords)

\* The texts of the calls the other caller makes.
OtherTexts ==
    {<<"v", Space, "a", Space, Dash, "i", Space, "a">>,
     <<Dash, "i", Space, "a", Space, Dash, Dash>> \o Name \o <<Tab, "b">>}

\* The observed thread is the one of the variables pc, frame, action, calls.
Me == [pc |-> pc, frame |-> frame, action |-> action, calls |-> calls]

Become(th) ==
    /\ pc' = th.pc
    /\ frame' = th.frame
    /\ action' = th.action
    /\ calls' = th.calls
    /\ UNCHANGED <<tree, target, input, other>>

InitSteps ==
    /\ tree \in Trees
    /\ target \in Targets(tree)
    /\ input \in StepTexts
    /\ pc = "ready"
    /\ action = None
    /\ calls = <<>>
    /\ frame = None
    /\ other = None

\* The caller invokes the target method on the input.
StepBegin ==
    /\ pc = "ready"
    /\ Become(Entering(Me, target.fn, target.self, input))

StepParserParse ==
    /\ pc = "running"
    /\ frame.fn = "Parser::parse"
    /\ Become(ParserParseStep(Parsers[tree], Me))

StepVerbParse ==
    /\ pc = "running"
    /\ frame.fn = "Verb::parse"
    /\ Become(VerbParseStep(Parsers[tree], Me))

StepCommandToken ==
    /\ pc = "running"
    /\ frame.fn = "Command::parse"
    /\ frame.tokens # <<>>
    /\ Become(CommandParseToken(Parsers[tree], Me))

StepCommandRun ==
    /\ pc = "running"
    /\ frame.fn = "Command::parse"
    /\ frame.tokens = <<>>
    /\ Become(CommandParseRun(Me))

StepNext ==
    \/ StepBegin
    \/ StepParserParse
    \/ StepVerbParse
    \/ StepCommandToken
    \/ StepCommandRun

\* A call that was started keeps executing: the thread is not suspended
\* anywhere in the three methods.
SpecSteps == InitSteps /\ [][StepNext]_vars /\ WF_vars(StepNext)

\* A second caller on the same tree: it makes up to MaxOtherCalls calls, one
\* after the other, and its steps interleave with those of the observed one.
InitInterleaved ==
    /\ tree \in Trees
    /\ target \in Targets(tree)
    /\ input \in InterleavedTexts
    /\ pc = "ready"
    /\ action = None
    /\ calls = <<>>
    /\ frame = None
    /\ other = [made |-> 0, target |-> target, input |-> <<>>, th |-> Fresh]

OtherCall ==
    /\ other.th.pc \in {"ready", "done"}
    /\ other.made < MaxOtherCalls
    /\ \E t \in Targets(tree), i \in OtherTexts :
           other' = [made |-> other.made + 1, target |-> t, input |-> i,
                     th |-> Entering(Fresh, t.fn, t.self, i)]
    /\ UNCHANGED <<tree, target, input, pc, action, calls, frame>>

\* A step of the other caller, except that the two callers share one token
\* cursor: a token the other call consumes is gone for the observed one too.
OtherStepSharedCursor ==
    /\ other.th.pc = "running"
    /\ other' = [other EXCEPT !.th = StepOf(Parsers[tree], @)]
    /\ frame' = IF /\ pc = "running"
                   /\ frame.fn = "Command::parse"
                   /\ frame.tokens # <<>>
                   /\ other.th.frame.fn = "Command::parse"
                   /\ other.th.frame.tokens # <<>>
                THEN [frame EXCEPT !.tokens = Tail(@)]
                ELSE frame
    /\ UNCHANGED <<tree, target, input, pc, action, calls>>

\* A step of the other caller: it works on its own locals and reads the tree.
OtherStep ==
    /\ other.th.pc = "running"
    /\ other' = [other EXCEPT !.th = StepOf(Parsers[tree], @)]
    /\ UNCHANGED <<tree, target, input, pc, action, calls, frame>>

InterleavedNext ==
    \/ StepBegin
    \/ StepParserParse
    \/ StepVerbParse
    \/ StepCommandToken
    \/ StepCommandRun
    \/ OtherCall
    \/ OtherStep

SpecInterleaved == InitInterleaved /\ [][InterleavedNext]_vars

----------------------------------------------------------------------------
(* Vocabulary of the properties, stated over the text and the tree and not  *)
(* through the operators above.                                            *)

Done == pc = "done"

\* The Parser of the tree in use.
parser == Parsers[tree]

NoSpace(s) == \A i \in 1..Len(s) : s[i] # Space

\* The lengths n for which the first n characters of s are its first segment:
\* the text before the first " " (all of s when it holds none).
FirstSegmentLengths(s) ==
    {n \in 0..Len(s) :
        /\ NoSpace(SubSeq(s, 1, n))
        /\ (n = Len(s) \/ s[n + 1] = Space)}

FirstSegment(s) == SubSeq(s, 1, CHOOSE n \in FirstSegmentLengths(s) : TRUE)

\* The text after the first segment and the " " that ends it.
AfterFirstSegment(s) == SubSeq(s, Len(FirstSegment(s)) + 2, Len(s))

\* The last invocation of a call is the one that produced the Action.
LastCall == calls[Len(calls)]

----------------------------------------------------------------------------
(* C1, C2: Parser::parse                                                   *)

\* C1 as stated: for every registered top-level verb name v and every rest,
\* Parser.parse(v + " " + rest) returns the Action that the Verb registered
\* under v returns from parse(rest).
C1_DelegationForEveryName ==
    (Done /\ target.fn = "Parser::parse") =>
        \A v \in DOMAIN parser.verbs :
            StartsWith(input, v \o <<Space>>) =>
                action = VerbParse(parser, <<v>>,
                                   SubSeq(input, Len(v) + 2, Len(input))).action

\* C1 amended: the same for every registered top-level verb name v that holds
\* no " ".
C1_DelegationIsLossless ==
    (Done /\ target.fn = "Parser::parse") =>
        \A v \in DOMAIN parser.verbs :
            (NoSpace(v) /\ StartsWith(input, v \o <<Space>>)) =>
                action = VerbParse(parser, <<v>>,
                                   SubSeq(input, Len(v) + 2, Len(input))).action

\* A line "v <command> <flag> <value>" resolved through the Parser to a Run
\* that binds a value.
C1_Witness ==
    /\ Done
    /\ target.fn = "Parser::parse"
    /\ \E v \in DOMAIN parser.verbs : NoSpace(v) /\ StartsWith(input, v \o <<Space>>)
    /\ action.kind = "Run"
    /\ \E k \in 1..Len(action.parameter_values) :
           action.parameter_values[k].values # <<>>

\* C2: when the first token x of the line is no key of the Parser's verb map,
\* Parser.parse returns Unknown(x), with or without text after x, and calls
\* no Verb and no Command.
C2_UnknownCarriesFirstToken ==
    (Done /\ target.fn = "Parser::parse") =>
        \A n \in FirstSegmentLengths(input) :
            LET x == SubSeq(input, 1, n)
            IN  x \notin DOMAIN parser.verbs =>
                    /\ action = Unknown(x)
                    /\ calls = <<Call("Parser::parse", <<>>, input)>>

\* An unregistered first token followed by more text.
C2_Witness ==
    /\ Done
    /\ target.fn = "Parser::parse"
    /\ action.kind = "Unknown"
    /\ action.token # <<>>
    /\ Len(input) > Len(action.token) + 1

----------------------------------------------------------------------------
(* Vocabulary of the properties of Command::parse.                         *)

\* The k-th smallest element of a set of numbers.
NthOf(S, k) == CHOOSE i \in S : Cardinality({j \in S : j <= i}) = k

\* Where the tokens of a text start: a character that is no whitespace, at
\* the start of the text or after whitespace.
TokenStarts(s) ==
    {i \in 1..Len(s) : ~IsWhitespace(s[i]) /\ (i = 1 \/ IsWhitespace(s[i - 1]))}

\* Where the token that starts at i ends.
TokenEnd(s, i) ==
    CHOOSE j \in i..Len(s) :
        /\ \A k \in i..j : ~IsWhitespace(s[k])
        /\ (j = Len(s) \/ IsWhitespace(s[j + 1]))

\* The tokens of a text, in input order.
TokensOf(s) ==
    LET starts == TokenStarts(s)
    IN  [k \in 1..Cardinality(starts) |->
            LET i == NthOf(starts, k) IN SubSeq(s, i, TokenEnd(s, i))]

IsBare(t) == t[1] # Dash
IsLongForm(t) == Len(t) >= 2 /\ t[1] = Dash /\ t[2] = Dash
IsShortForm(t) == t[1] = Dash /\ ~IsLongForm(t)

\* The name a flag token is looked up by: the token between its first and
\* its last character that is no dash.
FlagName(t) ==
    LET named == {i \in 1..Len(t) : t[i] # Dash}
    IN  IF named = {} THEN <<>>
        ELSE SubSeq(t, NthOf(named, 1), NthOf(named, Cardinality(named)))

\* The positions in command.parameters of the Parameters a flag token names:
\* by long name for a "--" token, by short name for a "-" token.
NamedBy(command, t) ==
    {q \in 1..Len(command.parameters) :
        \/ IsLongForm(t) /\ command.parameters[q].long_name = FlagName(t)
        \/ IsShortForm(t) /\ <<command.parameters[q].short_name>> = FlagName(t)}

\* A recognized flag token names a Parameter of the command; it is bound to
\* the last one declared under that name.
Recognized(command, t) == NamedBy(command, t) # {}
ParameterOf(command, t) ==
    command.parameters[NthOf(NamedBy(command, t), Cardinality(NamedBy(command, t)))]

RecognizedAt(command, toks) ==
    {i \in 1..Len(toks) : Recognized(command, toks[i])}

\* The position of the first recognized flag token after position i, or one
\* past the last token.
NextFlagAfter(command, toks, i) ==
    LET later == {j \in RecognizedAt(command, toks) : j > i}
    IN  IF later = {} THEN Len(toks) + 1 ELSE NthOf(later, 1)

\* The bare tokens strictly between positions i and j, in input order.
BareBetween(toks, i, j) == SelectSeq(SubSeq(toks, i + 1, j - 1), IsBare)

RECURSIVE AllValues(_)
\* The values of the entries of a ParameterValue list, one after the other.
AllValues(parameter_values) ==
    IF parameter_values = <<>> THEN <<>>
    ELSE Head(parameter_values).values \o AllValues(Tail(parameter_values))

\* The call ended in Command::parse: on which Command, with which tokens.
EndedInCommand == Done /\ LastCall.fn = "Command::parse"
TheCommand == CommandOf(parser, LastCall.self)
TheTokens == TokensOf(LastCall.arg)

----------------------------------------------------------------------------
(* C3 .. C8: Command::parse                                                *)

\* C3: a Run holds one ParameterValue per recognized flag token, in input
\* order, each bound to the Parameter its token names and holding exactly the
\* bare tokens between that token and the next recognized flag token or the
\* end of the text; the last flag opened is in the list too.
C3_RunGroupsValuesByFlag ==
    (EndedInCommand /\ action.kind = "Run") =>
        LET command == TheCommand
            toks == TheTokens
            flags == RecognizedAt(command, toks)
            pv == action.parameter_values
        IN  /\ Len(pv) = Cardinality(flags)
            /\ \A k \in 1..Len(pv) :
                   LET i == NthOf(flags, k)
                   IN  /\ pv[k].parameter_type = ParameterOf(command, toks[i])
                       /\ pv[k].values =
                              BareBetween(toks, i, NextFlagAfter(command, toks, i))

\* Two different flags, each followed by a value.
C3_Witness ==
    /\ EndedInCommand
    /\ action.kind = "Run"
    /\ Len(action.parameter_values) = 2
    /\ action.parameter_values[1].parameter_type
           # action.parameter_values[2].parameter_type
    /\ action.parameter_values[1].values # <<>>
    /\ action.parameter_values[2].values # <<>>

\* A single-dash token with more than one character after the dash.
MalformedShort(t) == IsShortForm(t) /\ Len(Tail(t)) > 1

\* C4 as stated: the first single-dash token whose text after its one leading
\* dash is longer than one character makes Command.parse return BadParameter
\* of that text and this command, whatever comes before or after it.
C4_FirstMalformedShortIsBadParameter ==
    EndedInCommand =>
        \A i \in 1..Len(TheTokens) :
            (/\ MalformedShort(TheTokens[i])
             /\ \A j \in 1..(i - 1) : ~MalformedShort(TheTokens[j]))
                => action = BadParameter(Tail(TheTokens[i]), LastCall.self)

\* C5: a recognized flag that occurs k times, in any of its forms, gives k
\* entries bound to its Parameter, the j-th holding the bare tokens that follow
\* the j-th occurrence up to the next recognized flag token.
C5_RepeatedFlagGivesSeparateEntries ==
    (EndedInCommand /\ action.kind = "Run") =>
        LET command == TheCommand
            toks == TheTokens
            flags == RecognizedAt(command, toks)
        IN  \A q \in 1..Len(command.parameters) :
                LET IsQ(e) == e.parameter_type = command.parameters[q]
                    entries == SelectSeq(action.parameter_values, IsQ)
                    occurrences ==
                        {i \in flags :
                            ParameterOf(command, toks[i]) = command.parameters[q]}
                IN  /\ Len(entries) = Cardinality(occurrences)
                    /\ \A j \in 1..Len(entries) :
                           entries[j].values =
                               BareBetween(toks, NthOf(occurrences, j),
                                   NextFlagAfter(command, toks, NthOf(occurrences, j)))

\* The same Parameter named twice, once by "-i" and once by "--name", each
\* occurrence with its own value.
C5_Witness ==
    /\ EndedInCommand
    /\ action.kind = "Run"
    /\ Len(action.parameter_values) = 2
    /\ action.parameter_values[1].parameter_type
           = action.parameter_values[2].parameter_type
    /\ action.parameter_values[1].values # <<>>
    /\ action.parameter_values[2].values # <<>>
    /\ action.parameter_values[1].values # action.parameter_values[2].values
    /\ \E i, j \in 1..Len(TheTokens) :
           IsShortForm(TheTokens[i]) /\ IsLongForm(TheTokens[j])

\* C6: the bare tokens before the first recognized flag token are in no
\* entry's values and open no entry, and no bare token makes the call fail.
C6_OrphanValuesAreDropped ==
    EndedInCommand =>
        LET toks == TheTokens
            first == NextFlagAfter(TheCommand, toks, 0)
        IN  /\ action.kind = "Run" =>
                   /\ AllValues(action.parameter_values)
                          = BareBetween(toks, first, Len(toks) + 1)
                   /\ (first > Len(toks) => action.parameter_values = <<>>)
            /\ (\A i \in 1..Len(toks) : IsBare(toks[i]))
                   => action.kind = "Run"

\* A bare token, then a recognized flag, then a value.
C6_Witness ==
    /\ EndedInCommand
    /\ action.kind = "Run"
    /\ Len(TheTokens) >= 3
    /\ IsBare(TheTokens[1])
    /\ Recognized(TheCommand, TheTokens[2])
    /\ AllValues(action.parameter_values) # <<>>

\* C7: Command.parse("") is Run of the empty list, for every Command.
C7_EmptyTextRunsNothing ==
    (EndedInCommand /\ LastCall.arg = <<>>) => action = Run(<<>>)

\* The empty text given to a Command that declares parameters.
C7_Witness ==
    /\ EndedInCommand
    /\ LastCall.arg = <<>>
    /\ TheCommand.parameters # <<>>

\* An unrecognized flag token in the words of C8: a "--" token whose name is
\* in no Parameter's long name, or a "-" token of one character that is no
\* Parameter's short name.
UnrecognizedFlag(command, t) ==
    \/ /\ IsLongForm(t)
       /\ \A q \in 1..Len(command.parameters) :
              command.parameters[q].long_name # SubSeq(t, 3, Len(t))
    \/ /\ IsShortForm(t)
       /\ Len(t) = 2
       /\ \A q \in 1..Len(command.parameters) :
              command.parameters[q].short_name # t[2]

Without(toks, i) == SubSeq(toks, 1, i - 1) \o SubSeq(toks, i + 1, Len(toks))

\* C8 as stated: an unrecognized flag token is a no-op: the Action is the one
\* returned for the same text with that token removed.
C8_UnrecognizedFlagIsNoOp ==
    EndedInCommand =>
        \A i \in 1..Len(TheTokens) :
            UnrecognizedFlag(TheCommand, TheTokens[i]) =>
                action = CommandParse(parser, LastCall.self,
                                      Join(Without(TheTokens, i))).action

----------------------------------------------------------------------------
(* C9, C10: Verb::parse                                                    *)

\* C9: a Verb that holds a child verb and a child command under one name n
\* resolves a text whose first segment is n by calling the child verb's parse
\* on the rest, and never calls the parse of the command named n.
C9_VerbShadowsCommand ==
    Done =>
        \A k \in 1..Len(calls) :
            calls[k].fn = "Verb::parse" =>
                LET verb == VerbOf(parser, calls[k].self)
                    n == FirstSegment(calls[k].arg)
                    child == Append(calls[k].self, n)
                IN  (n \in DOMAIN verb.verbs /\ n \in DOMAIN verb.commands) =>
                        /\ k < Len(calls)
                        /\ calls[k + 1] = Call("Verb::parse", child,
                                               AfterFirstSegment(calls[k].arg))
                        /\ \A j \in 1..Len(calls) :
                               ~(calls[j].fn = "Command::parse" /\ calls[j].self = child)

\* A text that names the shadowed pair and goes on to a command of the child
\* verb.
C9_Witness ==
    /\ Done
    /\ action.kind = "Run"
    /\ \E k \in 1..Len(calls) :
           /\ calls[k].fn = "Verb::parse"
           /\ FirstSegment(calls[k].arg) \in DOMAIN VerbOf(parser, calls[k].self).verbs
           /\ FirstSegment(calls[k].arg) \in DOMAIN VerbOf(parser, calls[k].self).commands

\* The segments of a line: the texts between its " " characters.
Segments(s) ==
    LET spaces == {i \in 1..Len(s) : s[i] = Space}
        n == Cardinality(spaces) + 1
        cut(k) == IF k = 0 THEN 0 ELSE IF k = n THEN Len(s) + 1 ELSE NthOf(spaces, k)
    IN  [k \in 1..n |-> SubSeq(s, cut(k - 1) + 1, cut(k) - 1)]

\* path leads from the Parser through verb maps only.
IsVerbPath(p, path) ==
    /\ path # <<>>
    /\ path[1] \in DOMAIN p.verbs
    /\ \A i \in 2..Len(path) :
           path[i] \in DOMAIN VerbOf(p, SubSeq(path, 1, i - 1)).verbs

\* C10: the Verb carried by Incorrect is the node where resolution stalled:
\* the one reached from the node the call was made on by the leading segments
\* of the line, each a child verb of the node before it, and neither its verb
\* map nor its command map holds the next segment.
C10_IncorrectCarriesStalledVerb ==
    (Done /\ action.kind = "Incorrect") =>
        LET segs == Segments(input)
            base == target.self
            k == Len(action.verb) - Len(base)
            next == IF k < Len(segs) THEN segs[k + 1] ELSE <<>>
        IN  /\ Len(action.verb) >= Len(base)
            /\ k <= Len(segs)
            /\ action.verb = base \o SubSeq(segs, 1, k)
            /\ IsVerbPath(parser, action.verb)
            /\ next \notin DOMAIN VerbOf(parser, action.verb).verbs
            /\ next \notin DOMAIN VerbOf(parser, action.verb).commands

\* Resolution that stalled two levels below the Parser, on a segment that is
\* not empty.
C10_Witness ==
    /\ Done
    /\ target.fn = "Parser::parse"
    /\ action.kind = "Incorrect"
    /\ Len(action.verb) = 2
    /\ action.token # <<>>

----------------------------------------------------------------------------
\* C11: every call of a parse method on a built tree returns an Action, and
\* the Action is one of Unknown, Incorrect, BadParameter and Run: the call
\* never panics (neither expect() of Verb::parse meets None), and it never
\* produces Help or Exit.
C11_ParseReturnsOneOfFourActions ==
    Done =>
        /\ action.kind \in {"Unknown", "Incorrect", "BadParameter", "Run"}
        /\ action.kind = "Unknown" <=> LastCall.fn = "Parser::parse"
        /\ action.kind = "Incorrect" <=> LastCall.fn = "Verb::parse"
        /\ action.kind \in {"BadParameter", "Run"} <=> LastCall.fn = "Command::parse"

\* A call that went through both expect() lookups: Verb::parse fetched a child
\* verb, and that one fetched a command.
C11_Witness ==
    /\ Done
    /\ \E i \in 1..Len(calls) - 2 :
           /\ calls[i].fn = "Verb::parse"
           /\ calls[i + 1].fn = "Verb::parse"
           /\ calls[i + 2].fn = "Command::parse"
    /\ action.kind = "Run"

----------------------------------------------------------------------------
RECURSIVE VerbHeight(_)
\* The number of levels of the tree from a Verb down: itself, and the
\* tallest of its children (a Command is one level).
VerbHeight(verb) ==
    LET below == {VerbHeight(verb.verbs[k]) : k \in DOMAIN verb.verbs}
                     \cup (IF DOMAIN verb.commands = {} THEN {0} ELSE {1})
    IN  1 + CHOOSE h \in below : \A g \in below : g <= h

\* The number of levels below the Parser.
ParserHeight(p) ==
    LET below == {VerbHeight(p.verbs[k]) : k \in DOMAIN p.verbs} \cup {0}
    IN  CHOOSE h \in below : \A g \in below : g <= h

\* C12: every call of a parse method terminates.  A call that was started
\* reaches its return; each call a parse method makes is on a node one level
\* below its own, so the node's level never exceeds the height of the tree;
\* and each iteration of the token loop leaves one token less to look at.
C12_EveryParseTerminates ==
    /\ <>(pc = "done")
    /\ [][(pc = "running" /\ pc' = "running" /\ calls' # calls) =>
              /\ Len(calls') = Len(calls) + 1
              /\ Len(frame'.self) = Len(frame.self) + 1
              /\ Len(frame'.self) <= ParserHeight(parser)]_vars
    /\ [][(pc = "running" /\ pc' = "running" /\ calls' = calls) =>
              /\ frame.fn = "Command::parse"
              /\ frame'.fn = "Command::parse"
              /\ Len(frame'.tokens) = Len(frame.tokens) - 1]_vars

\* A call that went down to the lowest level of the tree and looped over two
\* tokens there.
C12_Witness ==
    /\ Done
    /\ Len(LastCall.self) = ParserHeight(parser)
    /\ LastCall.fn = "Command::parse"
    /\ Len(TokensOf(LastCall.arg)) >= 2
    /\ action.kind = "Run"
    /\ action.parameter_values # <<>>
    /\ \E i \in 1..Len(calls) : calls[i].fn = "Verb::parse" /\ Len(calls[i].self) = 2

----------------------------------------------------------------------------
\* What the call of target t on text i returns on the tree in use when no
\* other call runs before or beside it.
Alone(t, i) ==
    IF t.fn = "Parser::parse" THEN ParserParse(parser, i)
    ELSE IF t.fn = "Verb::parse" THEN VerbParse(parser, t.self, i)
    ELSE CommandParse(parser, t.self, i)

\* C13: calls of parse are independent.  Whatever calls the other caller
\* finished before, and however its steps interleave with the observed call,
\* each call returns the Action (and makes the invocations) it makes alone;
\* between calls a thread holds no locals.
C13_CallsAreIndependent ==
    /\ Done =>
           /\ action = Alone(target, input).action
           /\ calls = Alone(target, input).calls
           /\ frame = None
    /\ other.th.pc = "done" =>
           /\ other.th.action = Alone(other.target, other.input).action
           /\ other.th.calls = Alone(other.target, other.input).calls
           /\ other.th.frame = None

\* The observed call returned a Run with an argument while the other caller,
\* one call behind it, was in the middle of the token loop of its next one.
C13_Witness ==
    /\ Done
    /\ action.kind = "Run"
    /\ \E k \in 1..Len(action.parameter_values) :
           action.parameter_values[k].values # <<>>
    /\ other.made >= 2
    /\ other.th.pc = "running"
    /\ other.th.frame.fn = "Command::parse"
    /\ other.th.frame.parameter_values # <<>>
    /\ other.th.frame.tokens # <<>>

----------------------------------------------------------------------------
\* The text with one " " in the place of each run of whitespace between two
\* of its segments.
SingleSpaced(s) == Join(TokensOf(s))

\* C14: Parser.parse and Verb.parse split at the first run of whitespace, so
\* a line whose path segments are two or more spaces apart resolves to the
\* Action of the line with single spaces: here for every line that starts
\* with a segment and whose single-spaced form names a Command.
C14_WhitespaceRunSeparatesSegments ==
    (/\ Done
     /\ target.fn # "Command::parse"
     /\ input # <<>>
     /\ ~IsWhitespace(input[1])
     /\ LET alone == Alone(target, SingleSpaced(input))
        IN  alone.calls[Len(alone.calls)].fn = "Command::parse")
    => action = Alone(target, SingleSpaced(input)).action

----------------------------------------------------------------------------
\* C15: of a token that starts with "--", exactly the two leading dashes are
\* removed and the whole rest is looked up: when the rest is no Parameter's
\* long name (as the rest of "--name-" or "---name" for the long name
\* "name"), the token is dropped, and the Action is the one of the text
\* without it.
C15_LongFlagIsLookedUpWhole ==
    EndedInCommand =>
        \A i \in 1..Len(TheTokens) :
            (/\ IsLongForm(TheTokens[i])
             /\ \A q \in 1..Len(TheCommand.parameters) :
                    TheCommand.parameters[q].long_name
                        # SubSeq(TheTokens[i], 3, Len(TheTokens[i])))
            => action = CommandParse(parser, LastCall.self,
                                     Join(Without(TheTokens, i))).action

----------------------------------------------------------------------------
\* C16: the string carried by Incorrect is the offending token alone: the
\* one segment of the line, after those that led to the carried Verb, that
\* names neither a child verb nor a child command of it, without the text
\* that follows that segment.
C16_IncorrectCarriesOffendingSegment ==
    (Done /\ action.kind = "Incorrect") =>
        LET segs == Segments(input)
            k == Len(action.verb) - Len(target.self)
        IN  action.token = IF k < Len(segs) THEN segs[k + 1] ELSE <<>>

----------------------------------------------------------------------------
\* C17: a single-dash token of exactly one character after the dash never
\* yields BadParameter, whatever the character: a call returns BadParameter
\* only when its text holds a single-dash token with more than one character
\* after the dash.
C17_OneCharacterNeverBadParameter ==
    (EndedInCommand /\ action.kind = "BadParameter") =>
        \E i \in 1..Len(TheTokens) : MalformedShort(TheTokens[i])

----------------------------------------------------------------------------
MaxParameters == 3

\* Parameter lists of up to MaxParameters entries, with short and long names
\* that repeat.
ParameterLists ==
    UNION {[1..n -> {ParameterNew("i", Name), ParameterNew("i", Count),
                     ParameterNew("n", Name), ParameterNew("n", Count)}] :
           n \in 0..MaxParameters}

\* Every position stored in the two index maps of a Command is an index of
\* its parameters (counted from 0, as Vec::get takes it), and the Parameter
\* there has the name the position is stored under.
IndexMapsValid(command) ==
    /\ \A k \in DOMAIN command.parameters_by_short_name :
           LET index == command.parameters_by_short_name[k]
           IN  /\ index < Len(command.parameters)
               /\ command.parameters[index + 1].short_name = k
    /\ \A k \in DOMAIN command.parameters_by_long_name :
           LET index == command.parameters_by_long_name[k]
           IN  /\ index < Len(command.parameters)
               /\ command.parameters[index + 1].long_name = k

EveryBuiltCommandIsIndexed ==
    \A parameters \in ParameterLists :
        IndexMapsValid(CommandNew(<<"c">>, parameters))

\* The positions of the flag tokens whose name is a key of the index map of
\* their form.
FoundAt(command, toks) ==
    {i \in 1..Len(toks) :
        \/ /\ IsLongForm(toks[i])
           /\ FlagName(toks[i]) \in DOMAIN command.parameters_by_long_name
        \/ /\ IsShortForm(toks[i])
           /\ Len(FlagName(toks[i])) = 1
           /\ FlagName(toks[i])[1] \in DOMAIN command.parameters_by_short_name}

\* C18: the index maps Command::new builds from any parameter list, also one
\* with repeated names, hold valid positions of Parameters with the very name
\* of the key, and they are the same after a parse as before it; so every
\* flag token found in an index map opens an entry (none is dropped by the
\* out-of-range branch), bound to a Parameter with the name that was typed.
C18_IndexMapsPointAtNamedParameters ==
    /\ EveryBuiltCommandIsIndexed
    /\ EndedInCommand =>
           LET command == TheCommand
               toks == TheTokens
               found == FoundAt(command, toks)
           IN  /\ IndexMapsValid(command)
               /\ action.kind = "Run" =>
                      /\ Len(action.parameter_values) = Cardinality(found)
                      /\ \A k \in 1..Len(action.parameter_values) :
                             LET t == toks[NthOf(found, k)]
                                 parameter == action.parameter_values[k].parameter_type
                             IN  IF IsLongForm(t)
                                 THEN parameter.long_name = FlagName(t)
                                 ELSE <<parameter.short_name>> = FlagName(t)

\* On a Command with two Parameters of one short name, the short flag and a
\* long flag each opened an entry, bound to different Parameters.
C18_Witness ==
    /\ EndedInCommand
    /\ action.kind = "Run"
    /\ TheCommand.parameters = ParamsRepeated
    /\ \E j, k \in 1..Len(action.parameter_values) :
           /\ action.parameter_values[j].parameter_type = ParamsRepeated[1]
           /\ action.parameter_values[k].parameter_type = ParamsRepeated[2]
    /\ \E i \in 1..Len(TheTokens) : IsShortForm(TheTokens[i])

----------------------------------------------------------------------------
\* C19: a path that ends on a Verb is an error.  When every segment of the
\* line names a child verb of the node before it and nothing follows the
\* last one, and the Verb reached has neither a child verb nor a child
\* command of the empty name, the call returns Incorrect of the empty string
\* and that Verb, never Run or Help.
C19_PathEndingOnVerbIsIncorrect ==
    (/\ Done
     /\ target.fn # "Command::parse"
     /\ IsVerbPath(parser, target.self \o Segments(input))
     /\ LET last == VerbOf(parser, target.self \o Segments(input))
        IN  <<>> \notin (DOMAIN last.verbs) \cup (DOMAIN last.commands))
    => action = Incorrect(<<>>, target.self \o Segments(input))

\* A line of two verb names and nothing else, given to Parser::parse.
C19_Witness ==
    /\ Done
    /\ target.fn = "Parser::parse"
    /\ Len(Segments(input)) = 2
    /\ IsVerbPath(parser, Segments(input))
    /\ action.kind = "Incorrect"
    /\ action.token = <<>>
    /\ action.verb = Segments(input)

====
